---- MODULE Spec2Model ----
(***************************************************************************)
(* youtube2zim/youtube.py: the cached accessors of the YouTube Data API,   *)
(* the batch author resolver, the branding asset fetcher, the filter of    *)
(* deleted videos and the collection resolver.                             *)
(*                                                                         *)
(* The state is the cache directory (one JSON file per key), the channel   *)
(* assets directory, the remote service's data, and the outcome of the     *)
(* most recent call: its result, the HTTP requests it issued and the cache *)
(* files it wrote.  Each call is one action; its loops are recursive       *)
(* operators that thread the cache and the request log through every       *)
(* request the code issues.  Two processes sharing the cache directory run *)
(* get_channel_playlists_json one file access or request at a time.        *)
(***************************************************************************)
EXTENDS Integers, Sequences, FiniteSets, TLC

VARIABLES
    remote,     \* the data the YouTube API serves (fixed during a run)
    cache,      \* YOUTUBE.cache_dir: file name -> JSON value; DOMAIN = files present
    last,       \* the most recent call: operation, arguments, outcome, requests, writes
    returned,   \* history: <<accessor, id>> -> value of its first successful return
    assets,     \* channels_dir: channel id -> its directory; DOMAIN = directories present
    procs       \* the processes running get_channel_playlists_json step by step

vars == <<remote, cache, last, returned, assets, procs>>

-----------------------------------------------------------------------------
(* Bounds of the model *)

\* Largest number of pages a listing endpoint serves for one listing.
MaxPages == 3

\* Largest number of video ids get_videos_authors_info is called with.
MaxVideos == 101

\* Largest number of items in a list the deleted-video filter is applied to.
MaxItems == 2

-----------------------------------------------------------------------------
(* Program constants *)

PLAYLIST_API == "playlists"
PLAYLIST_ITEMS_API == "playlistItems"
CHANNELS_API == "channels"
VIDEOS_API == "videos"
MAX_VIDEOS_PER_REQUEST == 50

USER == "user"
CHANNEL == "channel"
PLAYLIST == "playlist"

\* Python's None for an optional string: the empty option; Some(x) otherwise.
None == <<>>
Some(x) == <<x>>

-----------------------------------------------------------------------------
(* The remote service *)

\* Ids of the playlists and videos the listings serve, in listing order.
PlaylistNames == <<"P1", "P2", "P3", "P4", "P5", "P6", "P7", "P8">>

\* Number of items on page i of a listing: 1, 2, 0, 1, 2, 0, ...
\* (a page may be empty and still carry a continuation cursor).
PageLen(i) == i % 3

RECURSIVE ItemsBefore(_)
ItemsBefore(i) == IF i <= 1 THEN 0 ELSE ItemsBefore(i - 1) + PageLen(i - 1)

\* The item numbers on page i: consecutive, disjoint across pages.
PageNumbers(i) == [k \in 1..PageLen(i) |-> ItemsBefore(i) + k]

\* channels of the service, by id
ChannelRecords ==
    [c \in {"C1", "C2"} |->
        [id |-> c,
         contentDetails |->
            [relatedPlaylists |-> [uploads |-> IF c = "C1" THEN "PU" ELSE "PZ"]]]]

\* usernames of the service: username -> channel id.  The user named "C1"
\* owns channel C2: a username may spell the same as another channel's id.
Usernames == [u \in {"acme", "C1"} |-> IF u = "acme" THEN "C1" ELSE "C2"]

\* playlists of the service, by id (part=snippet)
PlaylistRecords ==
    [p \in {PlaylistNames[i] : i \in DOMAIN PlaylistNames} \cup {"PU", "PZ"} |->
        [id |-> p,
         snippet |-> [title |-> "title of " \o p,
                      description |-> "about " \o p,
                      channelId |-> IF p = "PZ" THEN "C2" ELSE "C1",
                      channelTitle |-> IF p = "PZ" THEN "Zed" ELSE "Acme"]]]

\* The videos of the service: video i is "v<i>"; every tenth one is deleted
\* and the bulk lookup does not return it.
VideoId(i) == "v" \o ToString(i)

VideoRecords ==
    [v \in {VideoId(i) : i \in {j \in 1..(MaxVideos + 1) : j % 10 # 0}} |->
        [id |-> v,
         snippet |-> [channelId |-> "C1", channelTitle |-> "Acme uploads " \o v]]]

\* A service whose playlists listing of channel C1 and whose playlistItems
\* listing of playlist P1 both have n pages; n = 0 is the empty listing,
\* served as one page without items.  Channel C2 lists its uploads playlist.
\* The bulk video lookup serves perPage items per page.
NPages(n) == IF n = 0 THEN 1 ELSE n

PagedWorld(n, perPage) ==
    [videosPerPage |-> perPage,
     channels  |-> ChannelRecords,
     usernames |-> Usernames,
     playlists |-> PlaylistRecords,
     listing   |-> [c \in {"C1", "C2"} |->
                      IF c = "C2" THEN << <<[id |-> "PZ"]>> >>
                      ELSE [i \in 1..NPages(n) |->
                              [k \in 1..(IF n = 0 THEN 0 ELSE PageLen(i)) |->
                                 [id |-> PlaylistNames[PageNumbers(i)[k]]]]]],
     items     |-> [p \in {"P1"} |->
                      [i \in 1..NPages(n) |->
                         [k \in 1..(IF n = 0 THEN 0 ELSE PageLen(i)) |->
                            [contentDetails |-> [videoId |-> PageNumbers(i)[k]]]]]]]

\* The service of the end-to-end scenario: user acme owns channel C1, whose
\* uploads playlist is PU and whose playlists P1 and P2 are listed on two
\* pages.  PZ is a playlist of another creator.
ExampleWorld ==
    [PagedWorld(1, MAX_VIDEOS_PER_REQUEST) EXCEPT
        !.channels = [c \in {"C1"} |-> ChannelRecords[c]],
        !.usernames = [u \in {"acme"} |-> "C1"],
        !.listing = [c \in {"C1"} |-> << <<[id |-> "P1"]>>, <<[id |-> "P2"]>> >>]]

\* A service where channel C1 has no playlist to list, and where the user
\* named "C1" owns channel C2, whose listing holds its uploads playlist PZ.
OverlapWorld ==
    [PagedWorld(1, MAX_VIDEOS_PER_REQUEST) EXCEPT
        !.listing = [c \in {"C1", "C2"} |->
                        IF c = "C1" THEN << <<>> >> ELSE << <<[id |-> "PZ"]>> >>]]

\* The thumbnails map of a channel exposing the given quality keys.
Thumbnails(channel_id, keys) ==
    [q \in keys |-> [url |-> "https://img/" \o channel_id \o "/" \o q]]

\* Channels with a snippet, one per set of thumbnail qualities exposed.
BrandingChannels ==
    [c \in {"CM", "CB", "CD", "CH", "CN"} |->
        [id |-> c,
         snippet |->
            [thumbnails |->
                Thumbnails(c, CASE c = "CM" -> {"high", "medium", "default"}
                                [] c = "CB" -> {"medium"}
                                [] c = "CD" -> {"high", "default"}
                                [] c = "CH" -> {"high"}
                                [] c = "CN" -> {})],
         contentDetails |-> [relatedPlaylists |-> [uploads |-> "PU"]]]]

\* A service serving the channels with thumbnails.
BrandingWorld ==
    [PagedWorld(1, MAX_VIDEOS_PER_REQUEST) EXCEPT !.channels = BrandingChannels]

\* The body of the service's answer to a request; status 404 for a listing
\* of a channel or playlist that does not exist.
Respond(req) ==
    LET page == IF req.pageToken = None THEN 1 ELSE req.pageToken[1]
        paged(pages) ==
            [status |-> 200, items |-> pages[page],
             nextPageToken |-> IF page < Len(pages) THEN Some(page + 1) ELSE None]
        single(items) == [status |-> 200, items |-> items, nextPageToken |-> None]
        missing == [status |-> 404, items |-> <<>>, nextPageToken |-> None]
    IN  CASE req.api = CHANNELS_API /\ req.key = "id" ->
                IF req.id \in DOMAIN remote.channels
                THEN single(<<remote.channels[req.id]>>) ELSE single(<<>>)
          [] req.api = CHANNELS_API /\ req.key = "forUsername" ->
                IF req.id \in DOMAIN remote.usernames
                THEN single(<<remote.channels[remote.usernames[req.id]]>>)
                ELSE single(<<>>)
          [] req.api = PLAYLIST_API /\ req.key = "id" ->
                IF req.id \in DOMAIN remote.playlists
                THEN single(<<remote.playlists[req.id]>>) ELSE single(<<>>)
          [] req.api = PLAYLIST_API /\ req.key = "channelId" ->
                IF req.id \in DOMAIN remote.listing
                THEN paged(remote.listing[req.id]) ELSE missing
          [] req.api = PLAYLIST_ITEMS_API ->
                IF req.id \in DOMAIN remote.items
                THEN paged(remote.items[req.id]) ELSE missing
          [] req.api = VIDEOS_API ->
                LET found == SelectSeq(req.id, LAMBDA v : v \in DOMAIN VideoRecords)
                    from == (page - 1) * remote.videosPerPage
                    upto == IF from + remote.videosPerPage < Len(found)
                            THEN from + remote.videosPerPage ELSE Len(found)
                IN  [status |-> 200,
                     items |-> [k \in 1..(upto - from) |-> VideoRecords[found[from + k]]],
                     nextPageToken |-> IF upto < Len(found) THEN Some(page + 1) ELSE None]

-----------------------------------------------------------------------------
(* The cache store (youtube2zim.utils.load_json / save_json) *)

\* load_json returns None when the file is absent
is_cached(c, fname) == fname \in DOMAIN c
load_json(c, fname) == c[fname]
\* save_json overwrites the file
save_json(c, fname, value) ==
    [f \in DOMAIN c \cup {fname} |-> IF f = fname THEN value ELSE c[f]]

-----------------------------------------------------------------------------
(* One call: the context threaded through it *)

\* ctx: the cache, the requests issued so far, the cache files written so
\* far, and the index of the request of this call that the service answers
\* with a server error (0: none).
NewCtx(c, failAt) == [cache |-> c, reqs |-> <<>>, writes |-> <<>>, failAt |-> failAt]

Write(ctx, fname, value) ==
    [ctx EXCEPT !.cache = save_json(@, fname, value), !.writes = Append(@, fname)]

Return(ctx, value) == [ctx |-> ctx, exc |-> "", value |-> value]
Raise(ctx, exc) == [ctx |-> ctx, exc |-> exc, value |-> <<>>]

\* a request as the log keeps it: with the status of its response
Sent(req, status_code) ==
    [api |-> req.api, key |-> req.key, id |-> req.id, pageToken |-> req.pageToken,
     status |-> status_code]

\* a local variable: K applied to the value of x
With(x, K(_)) == K(x)

\* a call whose exception propagates: r when r raised, else K on its result
Then(r, K(_)) == IF r.exc # "" THEN r ELSE K(r)

\* requests.get: the request is logged; the response is the service's
\* answer, or a server error when this is the failing request of the call.
requests_get(ctx, req) ==
    With(Respond(req), LAMBDA body :
    With(IF Len(ctx.reqs) + 1 = ctx.failAt THEN 500 ELSE body.status, LAMBDA status_code :
        [ctx |-> [ctx EXCEPT !.reqs = Append(@, Sent(req, status_code))],
         status_code |-> status_code,
         items |-> body.items,
         nextPageToken |-> body.nextPageToken]))

-----------------------------------------------------------------------------
(* The resource accessors *)

\* get_channel_json caching the answer before looking for the item in it
get_channel_json_negative_cache(ctx, channel_id, for_username) ==
    With("channel_" \o channel_id, LAMBDA fname :
        IF is_cached(ctx.cache, fname)
        THEN Return(ctx, load_json(ctx.cache, fname))
        ELSE With(requests_get(ctx,
                      [api |-> CHANNELS_API,
                       key |-> IF for_username THEN "forUsername" ELSE "id",
                       id |-> channel_id, pageToken |-> None]), LAMBDA req :
                 IF req.status_code >= 400 THEN Raise(req.ctx, "HTTPError")
                 ELSE IF Len(req.items) = 0
                      THEN Raise(Write(req.ctx, fname, req.items), "IndexError")
                 ELSE Return(Write(req.ctx, fname, req.items[1]), req.items[1])))

get_channel_json(ctx, channel_id, for_username) ==
    With("channel_" \o channel_id, LAMBDA fname :
        IF is_cached(ctx.cache, fname)
        THEN Return(ctx, load_json(ctx.cache, fname))
        ELSE With(requests_get(ctx,
                      [api |-> CHANNELS_API,
                       key |-> IF for_username THEN "forUsername" ELSE "id",
                       id |-> channel_id, pageToken |-> None]), LAMBDA req :
                 IF req.status_code >= 400 THEN Raise(req.ctx, "HTTPError")
                 ELSE IF Len(req.items) = 0 THEN Raise(req.ctx, "IndexError")
                 ELSE Return(Write(req.ctx, fname, req.items[1]), req.items[1])))

\* the loop of get_channel_playlists_json without raise_for_status on an
\* error answer: it stops and hands back what it has
RECURSIVE channel_playlists_loop_swallow(_, _, _, _)
channel_playlists_loop_swallow(ctx, channel_id, items, page_token) ==
    With(requests_get(ctx,
             [api |-> PLAYLIST_API, key |-> "channelId",
              id |-> channel_id, pageToken |-> page_token]), LAMBDA req :
        IF req.status_code >= 400 THEN Return(req.ctx, items)
        ELSE With(items \o req.items, LAMBDA items2 :
             With(Write(req.ctx, "channel_" \o channel_id \o "_playlists", items2),
                  LAMBDA saved :
                 IF req.nextPageToken = None
                 THEN Return(saved, items2)
                 ELSE channel_playlists_loop_swallow(saved, channel_id, items2,
                                                     req.nextPageToken))))

\* the while True loop of get_channel_playlists_json: one iteration per request
RECURSIVE channel_playlists_loop(_, _, _, _)
channel_playlists_loop(ctx, channel_id, items, page_token) ==
    With(requests_get(ctx,
             [api |-> PLAYLIST_API, key |-> "channelId",
              id |-> channel_id, pageToken |-> page_token]), LAMBDA req :
        IF req.status_code >= 400 THEN Raise(req.ctx, "HTTPError")
        ELSE With(items \o req.items, LAMBDA items2 :
             With(Write(req.ctx, "channel_" \o channel_id \o "_playlists", items2),
                  LAMBDA saved :
                 IF req.nextPageToken = None
                 THEN Return(saved, items2)
                 ELSE channel_playlists_loop(saved, channel_id, items2,
                                             req.nextPageToken))))

get_channel_playlists_json(ctx, channel_id) ==
    With("channel_" \o channel_id \o "_playlists", LAMBDA fname :
        IF is_cached(ctx.cache, fname)
        THEN Return(ctx, load_json(ctx.cache, fname))
        ELSE channel_playlists_loop(ctx, channel_id, <<>>, None))

\* get_playlist_json caching the answer before looking for the item in it
get_playlist_json_negative_cache(ctx, playlist_id) ==
    With("playlist_" \o playlist_id, LAMBDA fname :
        IF is_cached(ctx.cache, fname)
        THEN Return(ctx, load_json(ctx.cache, fname))
        ELSE With(requests_get(ctx,
                      [api |-> PLAYLIST_API, key |-> "id",
                       id |-> playlist_id, pageToken |-> None]), LAMBDA req :
                 IF req.status_code >= 400 THEN Raise(req.ctx, "HTTPError")
                 ELSE IF Len(req.items) = 0
                      THEN Raise(Write(req.ctx, fname, req.items), "IndexError")
                 ELSE Return(Write(req.ctx, fname, req.items[1]), req.items[1])))

\* get_playlist_json without the cache read
get_playlist_json_uncached(ctx, playlist_id) ==
    With(requests_get(ctx,
             [api |-> PLAYLIST_API, key |-> "id",
              id |-> playlist_id, pageToken |-> None]), LAMBDA req :
        IF req.status_code >= 400 THEN Raise(req.ctx, "HTTPError")
        ELSE IF Len(req.items) = 0 THEN Raise(req.ctx, "IndexError")
        ELSE Return(Write(req.ctx, "playlist_" \o playlist_id, req.items[1]),
                    req.items[1]))

get_playlist_json(ctx, playlist_id) ==
    With("playlist_" \o playlist_id, LAMBDA fname :
        IF is_cached(ctx.cache, fname)
        THEN Return(ctx, load_json(ctx.cache, fname))
        ELSE With(requests_get(ctx,
                      [api |-> PLAYLIST_API, key |-> "id",
                       id |-> playlist_id, pageToken |-> None]), LAMBDA req :
                 IF req.status_code >= 400 THEN Raise(req.ctx, "HTTPError")
                 ELSE IF Len(req.items) = 0 THEN Raise(req.ctx, "IndexError")
                 ELSE Return(Write(req.ctx, fname, req.items[1]), req.items[1])))

\* the loop of get_videos_json with items = ... in place of items += ...
RECURSIVE videos_loop_overwrite(_, _, _, _)
videos_loop_overwrite(ctx, playlist_id, items, page_token) ==
    With(requests_get(ctx,
             [api |-> PLAYLIST_ITEMS_API, key |-> "playlistId",
              id |-> playlist_id, pageToken |-> page_token]), LAMBDA req :
        IF req.status_code >= 400 THEN Raise(req.ctx, "HTTPError")
        ELSE With(req.items, LAMBDA items2 :
                 IF req.nextPageToken = None
                 THEN Return(req.ctx, items2)
                 ELSE videos_loop_overwrite(req.ctx, playlist_id, items2,
                                            req.nextPageToken)))

\* the loop of get_videos_json saving the items after every page, as the
\* loop of get_channel_playlists_json does
RECURSIVE videos_loop_save_each_page(_, _, _, _)
videos_loop_save_each_page(ctx, playlist_id, items, page_token) ==
    With(requests_get(ctx,
             [api |-> PLAYLIST_ITEMS_API, key |-> "playlistId",
              id |-> playlist_id, pageToken |-> page_token]), LAMBDA req :
        IF req.status_code >= 400 THEN Raise(req.ctx, "HTTPError")
        ELSE With(items \o req.items, LAMBDA items2 :
             With(Write(req.ctx, "playlist_" \o playlist_id \o "_videos", items2),
                  LAMBDA saved :
                 IF req.nextPageToken = None
                 THEN Return(saved, items2)
                 ELSE videos_loop_save_each_page(saved, playlist_id, items2,
                                                 req.nextPageToken))))

\* the while True loop of get_videos_json
RECURSIVE videos_loop(_, _, _, _)
videos_loop(ctx, playlist_id, items, page_token) ==
    With(requests_get(ctx,
             [api |-> PLAYLIST_ITEMS_API, key |-> "playlistId",
              id |-> playlist_id, pageToken |-> page_token]), LAMBDA req :
        IF req.status_code >= 400 THEN Raise(req.ctx, "HTTPError")
        ELSE With(items \o req.items, LAMBDA items2 :
                 IF req.nextPageToken = None
                 THEN Return(req.ctx, items2)
                 ELSE videos_loop(req.ctx, playlist_id, items2, req.nextPageToken)))

get_videos_json(ctx, playlist_id) ==
    With("playlist_" \o playlist_id \o "_videos", LAMBDA fname :
        IF is_cached(ctx.cache, fname)
        THEN Return(ctx, load_json(ctx.cache, fname))
        ELSE Then(videos_loop(ctx, playlist_id, <<>>, None), LAMBDA r :
                 Return(Write(r.ctx, fname, r.value), r.value)))

-----------------------------------------------------------------------------
(* The collection resolver *)

\* A Python string that may hold commas is a sequence of tokens, "," being
\* a token of its own; Str is the string the tokens spell.
RECURSIVE Str(_)
Str(tokens) == IF tokens = <<>> THEN "" ELSE Head(tokens) \o Str(Tail(tokens))

\* str.split(","): the pieces between the commas, empty pieces included
RECURSIVE split_from(_, _, _)
split_from(tokens, i, piece) ==
    IF i > Len(tokens) THEN <<piece>>
    ELSE IF tokens[i] = "," THEN <<piece>> \o split_from(tokens, i + 1, "")
    ELSE split_from(tokens, i + 1, piece \o tokens[i])

split(tokens) == split_from(tokens, 1, "")

\* Playlist.from_id (slug, derived from the title alone, is left out)
Playlist_from_id(ctx, playlist_id) ==
    Then(get_playlist_json(ctx, playlist_id), LAMBDA r :
        Return(r.ctx,
               [playlist_id |-> playlist_id,
                title |-> r.value.snippet.title,
                description |-> r.value.snippet.description,
                creator_id |-> r.value.snippet.channelId,
                creator_name |-> r.value.snippet.channelTitle]))

\* [p["id"] for p in ...]
ids_of(items) == [i \in DOMAIN items |-> items[i].id]

\* set(playlist_ids)
set_of(playlist_ids) == {playlist_ids[i] : i \in DOMAIN playlist_ids}

\* the orders list(set(...)) may produce: any order of the set's elements
Orders(S) ==
    {o \in [1..Cardinality(S) -> S] : \A i, j \in 1..Cardinality(S) : o[i] = o[j] => i = j}

\* the playlist branch of extract_playlists_details_from
collect_from_playlists(ctx, youtube_id) ==
    With(split(youtube_id), LAMBDA playlist_ids :
    Then(Playlist_from_id(ctx, playlist_ids[1]), LAMBDA first :
        Return(first.ctx,
               [playlist_ids |-> playlist_ids,
                main_channel_id |-> first.value.creator_id,
                uploads_playlist_id |-> None])))

\* collect_playlist_ids without playlist_ids += [uploads]
collect_playlist_ids_no_uploads(ctx, collection_type, youtube_id) ==
    IF collection_type \in {USER, CHANNEL}
    THEN Then(get_channel_json(ctx, Str(youtube_id), collection_type = USER), LAMBDA ch :
         Then(get_channel_playlists_json(ch.ctx, ch.value.id), LAMBDA pl :
             Return(pl.ctx,
                    [playlist_ids |-> ids_of(pl.value),
                     main_channel_id |-> ch.value.id,
                     uploads_playlist_id |->
                         Some(ch.value.contentDetails.relatedPlaylists.uploads)])))
    ELSE IF collection_type = PLAYLIST
    THEN collect_from_playlists(ctx, youtube_id)
    ELSE Raise(ctx, "NotImplementedError")

\* collect_playlist_ids asking for the listing of youtube_id, not of the id
\* of the channel record
collect_playlist_ids_by_identifier(ctx, collection_type, youtube_id) ==
    IF collection_type \in {USER, CHANNEL}
    THEN Then(get_channel_json(ctx, Str(youtube_id), collection_type = USER), LAMBDA ch :
         Then(get_channel_playlists_json(ch.ctx, Str(youtube_id)), LAMBDA pl :
         With(ids_of(pl.value) \o <<ch.value.contentDetails.relatedPlaylists.uploads>>,
              LAMBDA playlist_ids :
             Return(pl.ctx,
                    [playlist_ids |-> playlist_ids,
                     main_channel_id |-> ch.value.id,
                     uploads_playlist_id |-> Some(playlist_ids[Len(playlist_ids)])]))))
    ELSE IF collection_type = PLAYLIST
    THEN collect_from_playlists(ctx, youtube_id)
    ELSE Raise(ctx, "NotImplementedError")

\* the first part of extract_playlists_details_from: the playlist ids, the
\* main channel id and the uploads playlist id
collect_playlist_ids(ctx, collection_type, youtube_id) ==
    IF collection_type \in {USER, CHANNEL}
    THEN Then(get_channel_json(ctx, Str(youtube_id), collection_type = USER), LAMBDA ch :
         Then(get_channel_playlists_json(ch.ctx, ch.value.id), LAMBDA pl :
         With(ids_of(pl.value) \o <<ch.value.contentDetails.relatedPlaylists.uploads>>,
              LAMBDA playlist_ids :
             Return(pl.ctx,
                    [playlist_ids |-> playlist_ids,
                     main_channel_id |-> ch.value.id,
                     uploads_playlist_id |-> Some(playlist_ids[Len(playlist_ids)])]))))
    ELSE IF collection_type = PLAYLIST
    THEN collect_from_playlists(ctx, youtube_id)
    ELSE Raise(ctx, "NotImplementedError")

\* [Playlist.from_id(playlist_id) for playlist_id in list(set(playlist_ids))]
RECURSIVE playlists_from_ids(_, _, _, _)
playlists_from_ids(ctx, order, i, playlists) ==
    IF i > Len(order) THEN Return(ctx, playlists)
    ELSE Then(Playlist_from_id(ctx, order[i]), LAMBDA r :
             playlists_from_ids(r.ctx, order, i + 1, Append(playlists, r.value)))

\* extract_playlists_details_from resolving playlist_ids as collected,
\* without set()
extract_without_set(ctx, collection_type, youtube_id, order) ==
    Then(collect_playlist_ids(ctx, collection_type, youtube_id), LAMBDA c :
    Then(playlists_from_ids(c.ctx, c.value.playlist_ids, 1, <<>>), LAMBDA r :
        Return(r.ctx,
               [playlists |-> r.value,
                main_channel_id |-> c.value.main_channel_id,
                uploads_playlist_id |-> c.value.uploads_playlist_id])))

\* extract_playlists_details_from taking the main channel of a playlist
\* collection from the first Playlist of the returned list
extract_main_from_first_returned(ctx, collection_type, youtube_id, order) ==
    Then(collect_playlist_ids(ctx, collection_type, youtube_id), LAMBDA c :
    Then(playlists_from_ids(c.ctx, order, 1, <<>>), LAMBDA r :
        Return(r.ctx,
               [playlists |-> r.value,
                main_channel_id |-> IF collection_type = PLAYLIST
                                    THEN r.value[1].creator_id
                                    ELSE c.value.main_channel_id,
                uploads_playlist_id |-> c.value.uploads_playlist_id])))

\* order: the order in which list(set(playlist_ids)) yields the ids
extract_playlists_details_from(ctx, collection_type, youtube_id, order) ==
    Then(collect_playlist_ids(ctx, collection_type, youtube_id), LAMBDA c :
    Then(playlists_from_ids(c.ctx, order, 1, <<>>), LAMBDA r :
        Return(r.ctx,
               [playlists |-> r.value,
                main_channel_id |-> c.value.main_channel_id,
                uploads_playlist_id |-> c.value.uploads_playlist_id])))

-----------------------------------------------------------------------------
(* The batch author resolver *)

\* dict.update: the entries of d2 override those of d1
dict_update(d1, d2) ==
    [k \in DOMAIN d1 \cup DOMAIN d2 |-> IF k \in DOMAIN d2 THEN d2[k] ELSE d1[k]]

\* the for loop over the items of one page: one update per item in page
\* order, so the last item with an id decides that id's entry
update_from_items(req_items, items) ==
    dict_update(req_items,
        [k \in {items[i].id : i \in DOMAIN items} |->
            With(CHOOSE i \in DOMAIN items :
                     /\ items[i].id = k
                     /\ \A j \in DOMAIN items : j > i => items[j].id # k,
                 LAMBDA i : [channelId |-> items[i].snippet.channelId,
                             channelTitle |-> items[i].snippet.channelTitle])])

\* the while True loop of retrieve_videos_for; the id parameter is the
\* comma-joined chunk, kept here as the sequence of its ids
RECURSIVE retrieve_videos_loop(_, _, _, _)
retrieve_videos_loop(ctx, videos_ids, req_items, page_token) ==
    With(requests_get(ctx,
             [api |-> VIDEOS_API, key |-> "id",
              id |-> videos_ids, pageToken |-> page_token]), LAMBDA req :
        IF req.status_code >= 400 THEN Raise(req.ctx, "HTTPError")
        ELSE With(update_from_items(req_items, req.items), LAMBDA req_items2 :
                 IF req.nextPageToken = None
                 THEN Return(req.ctx, req_items2)
                 ELSE retrieve_videos_loop(req.ctx, videos_ids, req_items2,
                                           req.nextPageToken)))

retrieve_videos_for(ctx, videos_ids) ==
    retrieve_videos_loop(ctx, videos_ids, <<>>, None)

\* the slice with its end index included: one id too many
Slice_end_included(videos_ids, interv) ==
    SubSeq(videos_ids, interv + 1,
           IF interv + MAX_VIDEOS_PER_REQUEST + 1 < Len(videos_ids)
           THEN interv + MAX_VIDEOS_PER_REQUEST + 1 ELSE Len(videos_ids))

\* videos_ids[interv : interv + MAX_VIDEOS_PER_REQUEST], interv counted from 0
Slice(videos_ids, interv) ==
    SubSeq(videos_ids, interv + 1,
           IF interv + MAX_VIDEOS_PER_REQUEST < Len(videos_ids)
           THEN interv + MAX_VIDEOS_PER_REQUEST ELSE Len(videos_ids))

\* the loop over the chunks saving the merged mapping after every chunk
RECURSIVE authors_chunks_loop_save_each_chunk(_, _, _, _)
authors_chunks_loop_save_each_chunk(ctx, videos_ids, items, interv) ==
    IF interv >= Len(videos_ids) THEN Return(ctx, items)
    ELSE Then(retrieve_videos_for(ctx, Slice(videos_ids, interv)), LAMBDA r :
         With(dict_update(items, r.value), LAMBDA items2 :
             authors_chunks_loop_save_each_chunk(
                 Write(r.ctx, "videos_channels", items2), videos_ids, items2,
                 interv + MAX_VIDEOS_PER_REQUEST)))

\* the loop over range(0, len(videos_ids), MAX_VIDEOS_PER_REQUEST)
RECURSIVE authors_chunks_loop(_, _, _, _)
authors_chunks_loop(ctx, videos_ids, items, interv) ==
    IF interv >= Len(videos_ids) THEN Return(ctx, items)
    ELSE Then(retrieve_videos_for(ctx, Slice(videos_ids, interv)), LAMBDA r :
             authors_chunks_loop(r.ctx, videos_ids, dict_update(items, r.value),
                                 interv + MAX_VIDEOS_PER_REQUEST))

\* get_videos_authors_info testing the cached mapping for truth ("if items:")
\* in place of "is not None": an empty cached mapping is fetched again
get_videos_authors_info_truthy_cache(ctx, videos_ids) ==
    IF /\ is_cached(ctx.cache, "videos_channels")
       /\ DOMAIN load_json(ctx.cache, "videos_channels") # {}
    THEN Return(ctx, load_json(ctx.cache, "videos_channels"))
    ELSE Then(authors_chunks_loop(ctx, videos_ids, <<>>, 0), LAMBDA r :
             Return(Write(r.ctx, "videos_channels", r.value), r.value))

get_videos_authors_info(ctx, videos_ids) ==
    IF is_cached(ctx.cache, "videos_channels")
    THEN Return(ctx, load_json(ctx.cache, "videos_channels"))
    ELSE Then(authors_chunks_loop(ctx, videos_ids, <<>>, 0), LAMBDA r :
             Return(Write(r.ctx, "videos_channels", r.value), r.value))

-----------------------------------------------------------------------------
(* The branding asset fetcher *)

\* the tuple of qualities with "high" ahead of the two others
QUALITIES_best_first == <<"high", "medium", "default">>

\* for quality in ("medium", "default")
QUALITIES == <<"medium", "default">>

\* the for loop of save_channel_branding: the url of the first quality of
\* the tuple that is a key of thumbnails, None when none is
RECURSIVE pick_thumbnail(_, _, _)
pick_thumbnail(thumbnails, qualities, i) ==
    IF i > Len(qualities) THEN None
    ELSE IF qualities[i] \in DOMAIN thumbnails THEN Some(thumbnails[qualities[i]].url)
    ELSE pick_thumbnail(thumbnails, qualities, i + 1)

\* channel_dir.mkdir(exist_ok=True): a directory without a profile image,
\* unless the directory is there already
mkdir(a, channel_id) ==
    IF channel_id \in DOMAIN a THEN a
    ELSE [c \in DOMAIN a \cup {channel_id} |->
            IF c = channel_id THEN [profile |-> None] ELSE a[c]]

\* profile_path.exists()
profile_exists(a, channel_id) == a[channel_id].profile # None

\* stream_file(thumbnail, profile_path): the image behind the url, as served
stream_file(a, channel_id, url) ==
    [a EXCEPT ![channel_id].profile = Some([url |-> url, size |-> "as served"])]

\* resize_image(profile_path, width=100, height=100)
resize_image(a, channel_id) ==
    [a EXCEPT ![channel_id].profile =
                  Some([url |-> @[1].url, size |-> "100x100"])]

\* the outcome r of a call together with the assets directory it leaves and
\* the urls it downloaded
Branded(r, a, downloads) ==
    [ctx |-> r.ctx, exc |-> r.exc, value |-> r.value, assets |-> a,
     downloads |-> downloads]

\* save_channel_branding (the banner branch is dead code: save_banner and False)
save_channel_branding(ctx, a, channel_id, save_banner) ==
    With(get_channel_json(ctx, channel_id, FALSE), LAMBDA ch :
        IF ch.exc # "" THEN Branded(ch, a, <<>>)
        ELSE With(pick_thumbnail(ch.value.snippet.thumbnails, QUALITIES, 1),
                  LAMBDA thumbnail :
             With(mkdir(a, channel_id), LAMBDA a2 :
                 IF profile_exists(a2, channel_id)
                 THEN Branded(Return(ch.ctx, None), a2, <<>>)
                 ELSE IF thumbnail = None \/ thumbnail = Some("")
                      THEN Branded(Raise(ch.ctx, "Exception"), a2, <<>>)
                 ELSE Branded(Return(ch.ctx, None),
                              resize_image(stream_file(a2, channel_id, thumbnail[1]),
                                           channel_id),
                              <<thumbnail[1]>>))))

-----------------------------------------------------------------------------
(* The filter predicates *)

\* skip_deleted_videos: True keeps the item, False filters it out
skip_deleted_videos(item) ==
    /\ item.snippet.title # "Deleted video"
    /\ item.snippet.description # "This video is unavailable."

-----------------------------------------------------------------------------
(* The calls of the driving process, one action each *)

\* identifiers the accessors are called with
ChannelArgs == {"C1", "acme", "nope"}
PlaylistArgs == {"P1", "PX"}

Accessors == {"get_channel_json", "get_channel_playlists_json",
              "get_playlist_json", "get_videos_json"}

\* The state after a call with outcome r.  last.pre is the set of cache
\* files present when the call started, last.again whether the same accessor
\* had already returned successfully for the same identifier.
Outcome(op, arg, flag, r) ==
    /\ cache' = r.ctx.cache
    /\ last' = [op |-> op, arg |-> arg, flag |-> flag, exc |-> r.exc,
                value |-> r.value, reqs |-> r.ctx.reqs, writes |-> r.ctx.writes,
                pre |-> DOMAIN cache,
                again |-> <<op, arg>> \in DOMAIN returned]
    /\ returned' = IF op \in Accessors /\ r.exc = "" /\ <<op, arg>> \notin DOMAIN returned
                   THEN [k \in DOMAIN returned \cup {<<op, arg>>} |->
                            IF k = <<op, arg>> THEN r.value ELSE returned[k]]
                   ELSE returned
    /\ UNCHANGED <<remote, assets, procs>>

\* The requests a call issues when none fails; any one of them may fail.
FailPoints(clean) == 0..Len(clean.ctx.reqs)

GetChannelJson ==
    \E id \in ChannelArgs, for_username \in BOOLEAN :
        \E failAt \in FailPoints(get_channel_json(NewCtx(cache, 0), id, for_username)) :
            With(get_channel_json(NewCtx(cache, failAt), id, for_username), LAMBDA r :
                Outcome("get_channel_json", id, for_username, r))

GetChannelPlaylistsJson ==
    \E id \in ChannelArgs :
        \E failAt \in FailPoints(get_channel_playlists_json(NewCtx(cache, 0), id)) :
            With(get_channel_playlists_json(NewCtx(cache, failAt), id), LAMBDA r :
                Outcome("get_channel_playlists_json", id, FALSE, r))

GetPlaylistJson ==
    \E id \in PlaylistArgs :
        \E failAt \in FailPoints(get_playlist_json(NewCtx(cache, 0), id)) :
            With(get_playlist_json(NewCtx(cache, failAt), id), LAMBDA r :
                Outcome("get_playlist_json", id, FALSE, r))

GetVideosJson ==
    \E id \in PlaylistArgs :
        \E failAt \in FailPoints(get_videos_json(NewCtx(cache, 0), id)) :
            With(get_videos_json(NewCtx(cache, failAt), id), LAMBDA r :
                Outcome("get_videos_json", id, FALSE, r))

\* the first n video ids
FirstVideos(n) == [i \in 1..n |-> VideoId(i)]

GetVideosAuthorsInfo(sizes) ==
    \E n \in sizes :
        \E failAt \in FailPoints(get_videos_authors_info(NewCtx(cache, 0), FirstVideos(n))) :
            With(get_videos_authors_info(NewCtx(cache, failAt), FirstVideos(n)), LAMBDA r :
                Outcome("get_videos_authors_info", FirstVideos(n), FALSE, r))

\* collection types and identifiers the resolver is called with
CollectionTypes == {USER, CHANNEL, PLAYLIST, "video"}
Identifiers == {<<"C1">>, <<"acme">>, <<"nope">>,
                <<"P1">>, <<"P1", ",", "P2", ",", "P1">>, <<"PZ", ",", "P1">>,
                <<"P2", ",", "PX">>}

\* the playlist ids the resolver collects when no request fails
CleanIds(collection_type, youtube_id) ==
    With(collect_playlist_ids(NewCtx(cache, 0), collection_type, youtube_id), LAMBDA c :
        IF c.exc = "" THEN set_of(c.value.playlist_ids) ELSE {})

ExtractPlaylistsDetailsFrom ==
    \E collection_type \in CollectionTypes, youtube_id \in Identifiers :
        \E order \in Orders(CleanIds(collection_type, youtube_id)) :
            \E failAt \in FailPoints(extract_playlists_details_from(
                               NewCtx(cache, 0), collection_type, youtube_id, order)) :
                With(extract_playlists_details_from(
                         NewCtx(cache, failAt), collection_type, youtube_id, order),
                     LAMBDA r : Outcome("extract_playlists_details_from", youtube_id,
                                        collection_type, r))

\* channel ids save_channel_branding is called with
BrandingArgs == {"CM", "CB", "CD", "CH", "CN", "nope"}

SaveChannelBranding ==
    \E channel_id \in BrandingArgs, save_banner \in BOOLEAN :
        \E failAt \in FailPoints(save_channel_branding(NewCtx(cache, 0), assets,
                                                       channel_id, save_banner)) :
            With(save_channel_branding(NewCtx(cache, failAt), assets,
                                       channel_id, save_banner), LAMBDA r :
                /\ cache' = r.ctx.cache
                /\ assets' = r.assets
                /\ last' = [op |-> "save_channel_branding", arg |-> channel_id,
                            flag |-> save_banner, exc |-> r.exc, value |-> r.value,
                            reqs |-> r.ctx.reqs, writes |-> r.ctx.writes,
                            pre |-> DOMAIN cache, again |-> FALSE,
                            downloads |-> r.downloads]
                /\ UNCHANGED <<remote, returned, procs>>)

\* The cache directory is cleared from outside between two calls (the cache
\* has no expiry of its own); the channel assets directory is another
\* directory and stays.
ClearCacheDir ==
    /\ cache # <<>>
    /\ cache' = <<>>
    /\ last' = [op |-> "clear_cache_dir", arg |-> "", flag |-> FALSE, exc |-> "",
                value |-> <<>>, reqs |-> <<>>, writes |-> <<>>,
                pre |-> DOMAIN cache, again |-> FALSE]
    /\ UNCHANGED <<remote, returned, assets, procs>>

\* video items by title and description: the two sentinels, near misses of
\* them and ordinary texts
VideoItems ==
    {[snippet |-> [title |-> t, description |-> d]] :
        t \in {"Deleted video", "deleted video", "Private video", "A talk"},
        d \in {"This video is unavailable.", "This video is unavailable", "About a talk"}}

\* the lists of at most MaxItems video items
VideoLists == UNION {[1..n -> VideoItems] : n \in 0..MaxItems}

\* skip_deleted_videos applied as a filter function to each item of a list:
\* the value is the list of its verdicts
SkipDeletedVideos ==
    \E items \in VideoLists :
        /\ last' = [op |-> "skip_deleted_videos", arg |-> items, flag |-> FALSE,
                    exc |-> "",
                    value |-> [i \in DOMAIN items |-> skip_deleted_videos(items[i])],
                    reqs |-> <<>>, writes |-> <<>>, pre |-> DOMAIN cache,
                    again |-> FALSE]
        /\ UNCHANGED <<remote, cache, returned, assets, procs>>

\* The processes that run get_channel_playlists_json at the same time on
\* the same cache directory, and the channel they all ask for.
Procs == {1, 2}
SharedChannel == "C1"

\* A process about to call get_channel_playlists_json.
Started ==
    [pc |-> "load", items |-> <<>>, page_token |-> None, next_page_token |-> None,
     value |-> <<>>]

\* load_json and the test of its result: the cached value is returned, or
\* the loop is entered with no item and no cursor
ProcLoad(p) ==
    /\ procs[p].pc = "load"
    /\ With("channel_" \o SharedChannel \o "_playlists", LAMBDA fname :
           procs' = [procs EXCEPT ![p] =
                        IF is_cached(cache, fname)
                        THEN [@ EXCEPT !.pc = "done", !.value = load_json(cache, fname)]
                        ELSE [@ EXCEPT !.pc = "request"]])
    /\ UNCHANGED <<remote, cache, last, returned, assets>>

\* requests.get of the page at the cursor, answered without error, and
\* items += of its items
ProcRequest(p) ==
    /\ procs[p].pc = "request"
    /\ With(Respond([api |-> PLAYLIST_API, key |-> "channelId", id |-> SharedChannel,
                     pageToken |-> procs[p].page_token]), LAMBDA body :
           /\ body.status < 400
           /\ procs' = [procs EXCEPT ![p] =
                           [@ EXCEPT !.pc = "save",
                                     !.items = @ \o body.items,
                                     !.next_page_token = body.nextPageToken]])
    /\ UNCHANGED <<remote, cache, last, returned, assets>>

\* save_json of the items so far, then the cursor: the loop goes on, or
\* breaks and the items are returned
ProcSave(p) ==
    /\ procs[p].pc = "save"
    /\ cache' = save_json(cache, "channel_" \o SharedChannel \o "_playlists",
                          procs[p].items)
    /\ procs' = [procs EXCEPT ![p] =
                    IF procs[p].next_page_token = None
                    THEN [@ EXCEPT !.pc = "done", !.value = procs[p].items]
                    ELSE [@ EXCEPT !.pc = "request",
                                   !.page_token = procs[p].next_page_token]]
    /\ UNCHANGED <<remote, last, returned, assets>>

NoCall == [op |-> "", arg |-> "", flag |-> FALSE, exc |-> "", value |-> <<>>,
           reqs |-> <<>>, writes |-> <<>>, pre |-> {}, again |-> FALSE]

\* A fresh cache directory; the service is any of the paged worlds.
Init ==
    /\ remote \in {PagedWorld(n, 30) : n \in 0..MaxPages}
    /\ cache = <<>>
    /\ last = NoCall
    /\ returned = <<>>
    /\ assets = <<>>
    /\ procs = <<>>

Next ==
    \/ GetChannelJson
    \/ GetChannelPlaylistsJson
    \/ GetPlaylistJson
    \/ GetVideosJson
    \/ GetVideosAuthorsInfo({3, 52})

Spec == Init /\ [][Next]_vars

\* The collection resolver, against the service of the end-to-end scenario
\* and against the one with an empty listing and a listed uploads playlist.
InitResolver ==
    /\ remote \in {ExampleWorld, OverlapWorld}
    /\ cache = <<>>
    /\ last = NoCall
    /\ returned = <<>>
    /\ assets = <<>>
    /\ procs = <<>>

NextResolver == ExtractPlaylistsDetailsFrom

SpecResolver == InitResolver /\ [][NextResolver]_vars

\* The numbers of ids at and around the chunk boundaries, up to MaxVideos.
BoundarySizes == {n \in 0..MaxVideos : n % MAX_VIDEOS_PER_REQUEST \in {0, 1, 2, 7, 49}}

\* The batch author resolver alone, called with the first n video ids for
\* every boundary size n, against a service that answers a chunk in one page
\* or in two.
InitAuthors ==
    /\ remote \in {PagedWorld(1, perPage) : perPage \in {MAX_VIDEOS_PER_REQUEST, 30}}
    /\ cache = <<>>
    /\ last = NoCall
    /\ returned = <<>>
    /\ assets = <<>>
    /\ procs = <<>>

NextAuthors == GetVideosAuthorsInfo(BoundarySizes)

SpecAuthors == InitAuthors /\ [][NextAuthors]_vars

\* The branding asset fetcher, from an empty assets directory, with a cache
\* directory that may be cleared between calls.
InitBranding ==
    /\ remote = BrandingWorld
    /\ cache = <<>>
    /\ last = NoCall
    /\ returned = <<>>
    /\ assets = <<>>
    /\ procs = <<>>

NextBranding ==
    \/ SaveChannelBranding
    \/ ClearCacheDir

SpecBranding == InitBranding /\ [][NextBranding]_vars

\* Two processes calling get_channel_playlists_json for the same channel on
\* an empty cache directory they share, a file access or a request at a time.
InitConcurrent ==
    /\ remote \in {PagedWorld(n, 30) : n \in 0..MaxPages}
    /\ cache = <<>>
    /\ last = NoCall
    /\ returned = <<>>
    /\ assets = <<>>
    /\ procs = [p \in Procs |-> Started]

NextConcurrent ==
    \E p \in Procs :
        \/ ProcLoad(p)
        \/ ProcRequest(p)
        \/ ProcSave(p)

SpecConcurrent == InitConcurrent /\ [][NextConcurrent]_vars

\* The deleted-video filter applied to lists of video items.
InitFilters ==
    /\ remote = ExampleWorld
    /\ cache = <<>>
    /\ last = NoCall
    /\ returned = <<>>
    /\ assets = <<>>
    /\ procs = <<>>

NextFilters == SkipDeletedVideos

SpecFilters == InitFilters /\ [][NextFilters]_vars

-----------------------------------------------------------------------------
(* Properties of the accessors *)

RECURSIVE Flatten(_)
\* the concatenation of the pages of a listing, in page order
Flatten(pages) == IF pages = <<>> THEN <<>> ELSE Head(pages) \o Flatten(Tail(pages))

\* the cache file an accessor call reads and writes
KeyOf(op, arg) ==
    CASE op = "get_channel_json" -> "channel_" \o arg
      [] op = "get_channel_playlists_json" -> "channel_" \o arg \o "_playlists"
      [] op = "get_playlist_json" -> "playlist_" \o arg
      [] op = "get_videos_json" -> "playlist_" \o arg \o "_videos"

\* the pages the service holds for the listing a paginated accessor fetches
PagesOf(op, arg) ==
    IF op = "get_videos_json" THEN remote.items[arg] ELSE remote.listing[arg]

Paginated == {"get_channel_playlists_json", "get_videos_json"}
PaginatedOps == Paginated \cup {"get_videos_authors_info"}

HasListing(op, arg) ==
    arg \in DOMAIN (IF op = "get_videos_json" THEN remote.items ELSE remote.listing)

\* C1: once an accessor has returned successfully for an identifier, every
\* later call of that accessor with that identifier, whatever calls came in
\* between, succeeds with the identical value and issues no request.
C1_RepeatedCallServedFromCache ==
    (last.op \in Accessors /\ last.again) =>
        /\ last.exc = ""
        /\ last.value = returned[<<last.op, last.arg>>]
        /\ last.reqs = <<>>

\* a repeated call that followed calls of other accessors
C1_Witness ==
    /\ last.op = "get_channel_playlists_json" /\ last.again
    /\ Len(last.value) = 3
    /\ <<"get_videos_json", "P1">> \in DOMAIN returned
    /\ <<"get_channel_json", "C1">> \in DOMAIN returned

\* C2: from an empty cache entry and with no request answered by an error,
\* a paginated accessor of an N-page listing issues exactly N requests, the
\* first without a cursor and each next one with the cursor of the page
\* before, and returns the concatenation of the N pages in page order.
C2_PaginationFetchesAllPagesInOrder ==
    ( /\ last.op \in Paginated
      /\ HasListing(last.op, last.arg)
      /\ KeyOf(last.op, last.arg) \notin last.pre
      /\ \A i \in DOMAIN last.reqs : last.reqs[i].status < 400 ) =>
        LET pages == PagesOf(last.op, last.arg) IN
        /\ last.exc = ""
        /\ Len(last.reqs) = Len(pages)
        /\ last.reqs[1].pageToken = None
        /\ \A i \in 1..(Len(pages) - 1) :
               last.reqs[i + 1].pageToken = Respond(last.reqs[i]).nextPageToken
        /\ \A i \in DOMAIN last.reqs :
               /\ last.reqs[i].id = last.arg
               /\ last.reqs[i].api = IF last.op = "get_videos_json"
                                     THEN PLAYLIST_ITEMS_API ELSE PLAYLIST_API
        /\ last.value = Flatten(pages)

\* a three-page fetch (pages of 1, 2 and 0 items) that returned 3 items
C2_Witness ==
    /\ last.op = "get_videos_json" /\ last.exc = ""
    /\ Len(last.reqs) = 3 /\ Len(last.value) = 3
    /\ Len(remote.items["P1"]) = 3

\* C3: every successful get_channel_playlists_json call returns the complete
\* listing of the channel's playlists, never a strict prefix read back from
\* a cache entry that an interrupted call left behind.
C3_NeverReturnsPartialListing ==
    ( /\ last.op = "get_channel_playlists_json"
      /\ last.exc = ""
      /\ HasListing(last.op, last.arg) ) =>
        last.value = Flatten(remote.listing[last.arg])

\* C4: when the response to the k-th request of a paginated operation has a
\* status >= 400, the operation fails at once: the k-th request is the last
\* one it issued and nothing is returned to the caller.
C4_ErrorPageFailsImmediately ==
    last.op \in PaginatedOps =>
        \A k \in DOMAIN last.reqs :
            last.reqs[k].status >= 400 =>
                /\ k = Len(last.reqs)
                /\ last.exc = "HTTPError"
                /\ last.value = <<>>

\* the second page of a listing answered with an error
C4_Witness ==
    /\ last.op = "get_videos_json"
    /\ Len(last.reqs) = 2
    /\ last.reqs[2].status >= 400
    /\ last.exc = "HTTPError"

-----------------------------------------------------------------------------
(* Properties of the collection resolver *)

Extracted(types) ==
    /\ last.op = "extract_playlists_details_from"
    /\ last.flag \in types
    /\ last.exc = ""

\* After a successful call for a user or a channel: the cache file of the
\* channel lookup, which holds the record get_channel_json returned, and
\* the cache file of that channel's playlists listing.
ChannelFile == "channel_" \o Str(last.arg)
ListingFile == "channel_" \o cache[ChannelFile].id \o "_playlists"
UploadsOfChannel == cache[ChannelFile].contentDetails.relatedPlaylists.uploads

ReturnedIds == {last.value.playlists[i].playlist_id : i \in DOMAIN last.value.playlists}

\* C5: a successful call for a user or a channel returns, as
\* uploads_playlist_id, the uploads playlist of the channel record, and a
\* Playlist with that id is in the returned list, listed or not.
C5_UploadsPlaylistAlwaysIncluded ==
    Extracted({USER, CHANNEL}) =>
        /\ ChannelFile \in DOMAIN cache
        /\ last.value.uploads_playlist_id = Some(UploadsOfChannel)
        /\ UploadsOfChannel \in ReturnedIds

\* the channel's listing is empty and the uploads playlist is all there is
C5_Witness ==
    /\ Extracted({CHANNEL})
    /\ Flatten(remote.listing["C1"]) = <<>>
    /\ last.value.uploads_playlist_id = Some("PU")
    /\ ReturnedIds = {"PU"}
    /\ Len(last.reqs) = 3

\* C6: a successful call for a user looks the channel up by username only,
\* returns the id of the channel record as main_channel_id, asks for the
\* playlists listing of that channel id, and returns exactly the listed
\* playlists and the uploads playlist; on a cache without the two files the
\* record and the listing are the service's.
C6_UserResolvedThroughUsernameLookup ==
    Extracted({USER}) =>
        /\ ChannelFile \in DOMAIN cache
        /\ ListingFile \in DOMAIN cache
        /\ last.value.main_channel_id = cache[ChannelFile].id
        /\ ReturnedIds = set_of(ids_of(cache[ListingFile])) \cup {UploadsOfChannel}
        /\ \A i \in DOMAIN last.reqs :
              /\ last.reqs[i].api = CHANNELS_API =>
                    /\ last.reqs[i].key = "forUsername"
                    /\ last.reqs[i].id = Str(last.arg)
              /\ (last.reqs[i].api = PLAYLIST_API /\ last.reqs[i].key = "channelId") =>
                    last.reqs[i].id = last.value.main_channel_id
        /\ ChannelFile \notin last.pre =>
              /\ last.reqs[1].api = CHANNELS_API
              /\ Str(last.arg) \in DOMAIN remote.usernames
              /\ last.value.main_channel_id = remote.usernames[Str(last.arg)]
        /\ ListingFile \notin last.pre =>
              cache[ListingFile] = Flatten(remote.listing[last.value.main_channel_id])

\* the end-to-end scenario on an empty cache: user acme, channel C1,
\* playlists P1 and P2, uploads PU
C6_Witness ==
    /\ Extracted({USER})
    /\ last.arg = <<"acme">>
    /\ last.pre = {}
    /\ last.value.main_channel_id = "C1"
    /\ ReturnedIds = {"P1", "P2", "PU"}

\* the distinct playlist ids a successful call collected
CollectedIds ==
    IF last.flag = PLAYLIST THEN set_of(split(last.arg))
    ELSE set_of(ids_of(cache[ListingFile])) \cup {UploadsOfChannel}

\* C7: the returned list holds no two Playlists with the same playlist_id,
\* and as many Playlists as distinct playlist ids were collected.
C7_PlaylistsDeduplicated ==
    Extracted({USER, CHANNEL, PLAYLIST}) =>
        /\ \A i, j \in DOMAIN last.value.playlists :
              last.value.playlists[i].playlist_id = last.value.playlists[j].playlist_id
                  => i = j
        /\ Len(last.value.playlists) = Cardinality(CollectedIds)
        /\ ReturnedIds = CollectedIds

\* the identifier "P1,P2,P1" gives two playlists
C7_Witness ==
    /\ Extracted({PLAYLIST})
    /\ last.arg = <<"P1", ",", "P2", ",", "P1">>
    /\ Len(last.value.playlists) = 2

\* the piece of a comma-separated identifier before its first comma
FirstListed(tokens) ==
    LET commas == {i \in DOMAIN tokens : tokens[i] = ","}
        stop == IF commas = {} THEN Len(tokens) + 1
                ELSE CHOOSE i \in commas : \A j \in commas : i <= j
    IN  Str(SubSeq(tokens, 1, stop - 1))

\* C8: a successful call for a playlist collection returns the creator of
\* the first listed playlist as main_channel_id, in whatever order the
\* de-duplicated ids were resolved, and no uploads playlist.
C8_MainChannelIsCreatorOfFirstListed ==
    Extracted({PLAYLIST}) =>
        /\ "playlist_" \o FirstListed(last.arg) \in DOMAIN cache
        /\ last.value.main_channel_id =
               cache["playlist_" \o FirstListed(last.arg)].snippet.channelId
        /\ last.value.uploads_playlist_id = None

\* "PZ,P1" resolved with P1 first: the main channel is still PZ's creator
C8_Witness ==
    /\ Extracted({PLAYLIST})
    /\ last.arg = <<"PZ", ",", "P1">>
    /\ last.value.playlists[1].playlist_id = "P1"
    /\ last.value.main_channel_id = "C2"
    /\ last.value.playlists[1].creator_id = "C1"

\* C9: when the channel lookup of a call for a channel or a user is
\* answered without a matching item, the call fails with the lookup's
\* IndexError, has issued no other request and has written no cache file.
C9_UnknownChannelStopsTheResolver ==
    ( /\ last.op = "extract_playlists_details_from"
      /\ last.flag \in {USER, CHANNEL}
      /\ last.reqs # <<>>
      /\ last.reqs[1].api = CHANNELS_API
      /\ last.reqs[1].status < 400
      /\ Respond(last.reqs[1]).items = <<>> ) =>
        /\ last.exc = "IndexError"
        /\ Len(last.reqs) = 1
        /\ last.writes = <<>>
        /\ DOMAIN cache = last.pre

\* a call for the channel "nope" made after other calls filled the cache
C9_Witness ==
    /\ last.op = "extract_playlists_details_from"
    /\ last.flag = CHANNEL
    /\ last.arg = <<"nope">>
    /\ last.exc = "IndexError"
    /\ last.pre # {}

-----------------------------------------------------------------------------
(* Properties of the batch author resolver *)

\* the smaller of two numbers
Min(a, b) == IF a < b THEN a ELSE b

\* C10: from an empty videos_channels entry, against a service that answers
\* every chunk in one page, a call with n ids issues ceil(n/50) requests;
\* request i asks for ids 50(i-1)+1 .. min(50i, n) of the input, so the
\* chunks are consecutive, disjoint, of at most 50 ids and cover the input;
\* the mapping returned has an entry for every id the service returned.
C10_AuthorsFetchedInChunksOfFifty ==
    ( /\ last.op = "get_videos_authors_info"
      /\ "videos_channels" \notin last.pre
      /\ remote.videosPerPage >= MAX_VIDEOS_PER_REQUEST
      /\ \A i \in DOMAIN last.reqs : last.reqs[i].status < 400 ) =>
        LET n == Len(last.arg) IN
        /\ last.exc = ""
        /\ Len(last.reqs) = (n + MAX_VIDEOS_PER_REQUEST - 1) \div MAX_VIDEOS_PER_REQUEST
        /\ \A i \in DOMAIN last.reqs :
              /\ last.reqs[i].api = VIDEOS_API
              /\ last.reqs[i].pageToken = None
              /\ Len(last.reqs[i].id) <= MAX_VIDEOS_PER_REQUEST
              /\ last.reqs[i].id =
                    SubSeq(last.arg, MAX_VIDEOS_PER_REQUEST * (i - 1) + 1,
                           Min(MAX_VIDEOS_PER_REQUEST * i, n))
        /\ Flatten([i \in DOMAIN last.reqs |-> last.reqs[i].id]) = last.arg
        /\ DOMAIN last.value = set_of(last.arg) \cap DOMAIN VideoRecords
        /\ \A v \in DOMAIN last.value :
              /\ last.value[v].channelId = VideoRecords[v].snippet.channelId
              /\ last.value[v].channelTitle = VideoRecords[v].snippet.channelTitle

\* 101 ids fetched in chunks of 50, 50 and 1
C10_Witness ==
    /\ last.op = "get_videos_authors_info"
    /\ last.exc = ""
    /\ Len(last.arg) = 101
    /\ Len(last.reqs) = 3
    /\ Len(last.reqs[1].id) = 50 /\ Len(last.reqs[2].id) = 50 /\ Len(last.reqs[3].id) = 1

\* C11: once a call of get_videos_authors_info has succeeded (with an empty
\* id sequence too), the next call, whatever its id sequence, succeeds with
\* the same mapping, issues no request and leaves the cache as it is; so
\* does every later call, each being the next call of a successful one.
C11_AuthorsCacheShortCircuitsAnyIdSet ==
    [][(last.op = "get_videos_authors_info" /\ last.exc = ""
            /\ last'.op = "get_videos_authors_info") =>
          /\ last'.exc = ""
          /\ last'.value = last.value
          /\ last'.reqs = <<>>
          /\ last'.writes = <<>>
          /\ cache' = cache]_vars

\* a call with MaxVideos ids answered with the empty mapping that a call
\* with no id had cached
C11_Witness ==
    /\ last.op = "get_videos_authors_info" /\ last.exc = ""
    /\ "videos_channels" \in last.pre
    /\ DOMAIN last.value = {}
    /\ Len(last.arg) > MAX_VIDEOS_PER_REQUEST
    /\ last.reqs = <<>>


-----------------------------------------------------------------------------
(* Properties of the branding asset fetcher *)

\* the thumbnails map the service holds for the channel of the last call
ThumbnailsOf(channel_id) == remote.channels[channel_id].snippet.thumbnails

\* C12: a call of save_channel_branding for a channel whose profile image
\* exists, whatever the cache holds, issues no request, writes no cache
\* file, downloads nothing and leaves the assets directory as it is.
C12_BrandingNoOpWhenProfileExists ==
    [][(/\ last'.op = "save_channel_branding"
        /\ last'.arg \in DOMAIN assets
        /\ profile_exists(assets, last'.arg)) =>
          /\ last'.reqs = <<>>
          /\ last'.writes = <<>>
          /\ cache' = cache
          /\ last'.downloads = <<>>
          /\ assets' = assets]_vars

\* C13: the url save_channel_branding downloads is the "medium" url of the
\* channel when thumbnails has that key, else its "default" url, which it
\* then has; one url per call.
C13_ThumbnailMediumThenDefault ==
    (last.op = "save_channel_branding" /\ last.downloads # <<>>) =>
        /\ Len(last.downloads) = 1
        /\ IF "medium" \in DOMAIN ThumbnailsOf(last.arg)
           THEN last.downloads[1] = ThumbnailsOf(last.arg)["medium"].url
           ELSE /\ "default" \in DOMAIN ThumbnailsOf(last.arg)
                /\ last.downloads[1] = ThumbnailsOf(last.arg)["default"].url
        /\ assets[last.arg].profile = Some([url |-> last.downloads[1], size |-> "100x100"])

\* a channel exposing "high" and "default" had its default url downloaded,
\* after one exposing all three had its medium url downloaded
C13_Witness ==
    /\ last.op = "save_channel_branding" /\ last.arg = "CD"
    /\ last.downloads = <<ThumbnailsOf("CD")["default"].url>>
    /\ "CM" \in DOMAIN assets
    /\ assets["CM"].profile = Some([url |-> ThumbnailsOf("CM")["medium"].url,
                                    size |-> "100x100"])

\* C14: a call of save_channel_branding for a channel of the service whose
\* thumbnails have neither "medium" nor "default", no request failing,
\* raises the exception, whatever the assets directory holds, and leaves
\* the assets directory as it was.
C14_NoThumbnailFailsAndCreatesNothing ==
    [][(/\ last'.op = "save_channel_branding"
        /\ last'.arg \in DOMAIN remote.channels
        /\ DOMAIN ThumbnailsOf(last'.arg) \cap {"medium", "default"} = {}
        /\ \A i \in DOMAIN last'.reqs : last'.reqs[i].status < 400) =>
          /\ last'.exc = "Exception"
          /\ assets' = assets]_vars


-----------------------------------------------------------------------------
(* Properties of the filter predicates *)

\* C15: skip_deleted_videos returns False for an item, filtering it out,
\* exactly when its title is "Deleted video" and its description is "This
\* video is unavailable."; an item matching one sentinel only is kept.
C15_DeletedExactlyWhenBothSentinels ==
    last.op = "skip_deleted_videos" =>
        \A i \in DOMAIN last.arg :
            last.value[i] = FALSE <=>
                /\ last.arg[i].snippet.title = "Deleted video"
                /\ last.arg[i].snippet.description = "This video is unavailable."


-----------------------------------------------------------------------------
(* Properties of the persistence disciplines *)

\* C16: after any calls, with any request failing, the cache file
\* playlist_{id}_videos is absent or holds the concatenation of all the
\* pages of the playlist; a call of get_videos_json that fails has written
\* nothing and leaves the file absent, and a call that finds it absent
\* starts with a request for the first page.
C16_VideosEntryAbsentOrComplete ==
    /\ \A id \in PlaylistArgs :
           KeyOf("get_videos_json", id) \in DOMAIN cache =>
               /\ id \in DOMAIN remote.items
               /\ cache[KeyOf("get_videos_json", id)] = Flatten(remote.items[id])
    /\ (last.op = "get_videos_json" /\ last.exc # "") =>
           /\ last.writes = <<>>
           /\ KeyOf("get_videos_json", last.arg) \notin DOMAIN cache
    /\ (last.op = "get_videos_json"
            /\ KeyOf("get_videos_json", last.arg) \notin last.pre) =>
           /\ last.reqs # <<>>
           /\ last.reqs[1].pageToken = None

\* a call that failed on the last of three pages
C16_Witness ==
    /\ last.op = "get_videos_json" /\ last.arg = "P1"
    /\ last.exc = "HTTPError"
    /\ Len(last.reqs) = MaxPages
    /\ last.reqs[1].status < 400 /\ last.reqs[2].status < 400
    /\ KeyOf("get_videos_json", "P1") \notin DOMAIN cache


\* the mapping the service's video records give for a sequence of ids
ExpectedAuthors(videos_ids) ==
    [v \in {videos_ids[i] : i \in DOMAIN videos_ids} \cap DOMAIN VideoRecords |->
        [channelId |-> VideoRecords[v].snippet.channelId,
         channelTitle |-> VideoRecords[v].snippet.channelTitle]]

\* C17: a call of get_videos_authors_info writes videos_channels at most
\* once; a call that fails has written nothing and leaves the file absent;
\* a call that succeeds on an absent file has had every request answered
\* without error and writes, once, the merge of all its chunks, which it
\* returns; so the file, when present, holds the full mapping of one call.
C17_AuthorsPersistedOnceAfterAllChunks ==
    /\ last.op = "get_videos_authors_info" =>
           /\ Len(last.writes) <= 1
           /\ last.exc # "" =>
                  /\ last.writes = <<>>
                  /\ "videos_channels" \notin DOMAIN cache
           /\ (last.exc = "" /\ "videos_channels" \notin last.pre) =>
                  /\ \A i \in DOMAIN last.reqs : last.reqs[i].status < 400
                  /\ last.writes = <<"videos_channels">>
                  /\ last.value = ExpectedAuthors(last.arg)
                  /\ cache["videos_channels"] = last.value
    /\ "videos_channels" \in DOMAIN cache =>
           \E n \in BoundarySizes :
               cache["videos_channels"] = ExpectedAuthors(FirstVideos(n))

\* a call with MaxVideos ids that failed in its last chunk, the chunks
\* before it fetched
C17_Witness ==
    /\ last.op = "get_videos_authors_info" /\ last.exc = "HTTPError"
    /\ Len(last.arg) = MaxVideos
    /\ Len(last.reqs) >= 3
    /\ Len(last.reqs[Len(last.reqs)].id) = 1
    /\ "videos_channels" \notin DOMAIN cache


-----------------------------------------------------------------------------
(* Properties of the single-item lookups *)

\* C18: every value get_channel_json returns for a lookup by id is the
\* record the service holds for that channel id, whatever calls of
\* get_channel_json came before, by username with the same string included.
C18_ChannelByIdIsThatChannel ==
    (last.op = "get_channel_json" /\ ~last.flag /\ last.exc = "") =>
        /\ last.value.id = last.arg
        /\ last.arg \in DOMAIN remote.channels
        /\ last.value = remote.channels[last.arg]

SingleItemLookups == {"get_channel_json", "get_playlist_json"}

\* C19: a call of get_channel_json or get_playlist_json that fails, on an
\* error status or on an answer without item, leaves every cache file as it
\* was and creates none; a call that finds its file absent issues one
\* request, and succeeds with the item of the answer when the answer has one.
C19_FailedLookupLeavesCacheUnchanged ==
    [][last'.op \in SingleItemLookups =>
          /\ last'.exc # "" =>
                 /\ cache' = cache
                 /\ last'.writes = <<>>
                 /\ last'.exc \in {"HTTPError", "IndexError"}
          /\ KeyOf(last'.op, last'.arg) \notin DOMAIN cache =>
                 /\ Len(last'.reqs) = 1
                 /\ last'.reqs[1].status < 400 =>
                        With(Respond(last'.reqs[1]).items, LAMBDA items :
                            IF items = <<>> THEN last'.exc = "IndexError"
                            ELSE /\ last'.exc = ""
                                 /\ last'.value = items[1]
                                 /\ cache'[KeyOf(last'.op, last'.arg)] = items[1])]_vars

\* a lookup of channel C1 that failed on an error status and a lookup of an
\* unknown playlist that failed for want of an item, both with files of
\* other lookups in the cache, none of them touched
C19_Witness ==
    /\ last.exc # "" /\ last.pre # {} /\ DOMAIN cache = last.pre
    /\ \/ /\ last.op = "get_channel_json" /\ last.arg = "C1"
          /\ last.exc = "HTTPError" /\ "channel_C1" \notin DOMAIN cache
       \/ /\ last.op = "get_playlist_json" /\ last.arg = "PX"
          /\ last.exc = "IndexError" /\ "playlist_PX" \notin DOMAIN cache

-----------------------------------------------------------------------------
(* Properties of concurrent calls *)

\* C20: once the two processes calling get_channel_playlists_json for the
\* same channel have both returned, no request having failed, the cache
\* file holds the complete listing and each process has returned it.
C20_ConcurrentCallsEndWithCompleteListing ==
    (\A p \in DOMAIN procs : procs[p].pc = "done") =>
        With("channel_" \o SharedChannel \o "_playlists", LAMBDA fname :
            /\ fname \in DOMAIN cache
            /\ cache[fname] = Flatten(remote.listing[SharedChannel])
            /\ \A p \in DOMAIN procs : procs[p].value = cache[fname])


====
